---- MODULE Spec2Model ----
(***************************************************************************)
(* alli-lister: the enrichment pipeline of cmd.go (the producer loop, the  *)
(* worker goroutines draining the jobs channel, the WaitGroup barrier) and *)
(* the export stage of main.go that reads the enriched slice.              *)
(***************************************************************************)
EXTENDS Naturals, Integers, Sequences, FiniteSets, TLC

\* ------------------------------------------------------------------ bounds
MaxN == 3          \* largest number of discovered functions
MaxW == 3          \* largest value of the -max-workers flag
MaxPerRegion == 2  \* largest number of functions the backend holds in one region
MaxTwiceN == 2     \* largest number of functions enriched twice over

\* ------------------------------------------------------- program constants
lambdaLogGroupPrefix == "/aws/lambda/"
Sentinel == "-"
Unset == ""
MillisPerSecond == 1000

Regions == <<"A", "B">>

\* One worker id more than the largest limit, so that a pool larger than the
\* configured limit is representable.
WorkerIds == 1..(MaxW + 1)

NoJob == [functionName |-> "", region |-> "", index |-> -1]

VARIABLES
    maxWorkers,           \* stg.maxWorkers
    lambdaFunctionsList,  \* the slice returned by getAllLambdaFunctionsDetails, 0-based
    pcMain,               \* position of the main goroutine
    i,                    \* producer loop index
    jobs,                 \* content of the buffered channel
    closed,               \* close(jobs) has run
    sent,                 \* history: every job sent on the channel, in order
    spawned,              \* number of `go` statements executed
    wg,                   \* WaitGroup counter
    pcW,                  \* position of each worker goroutine
    currentJob,           \* the job a worker holds
    lookups,              \* history: per index, the DescribeLogStreams calls made
    writes,               \* history: per index, the writes to LastInvoked
    logs,                 \* debug/error log events
    fileCreated,          \* os.Create succeeded
    ioFailed,             \* the csv writer is in its (sticky) error state
    file,                 \* rows that reached the output
    row,                  \* export loop index
    backend,              \* per region client, what the Lambda backend holds and its page size
    regionIdx,            \* position of the loop over app.lambdaClients
    inMarker,             \* in.Marker of the shared ListFunctionsInput
    requests,             \* history: the ListFunctions calls made
    cwSnapshot,           \* per (function, region), the one answer of a CloudWatch Logs
                          \* backend whose state is held fixed; empty when it is not
    run,                  \* which call of getAllLambdaFunctionsLastInvokeTime is under way
    firstRun              \* the slice as the first call and its barrier left it

vars == <<maxWorkers, lambdaFunctionsList, pcMain, i, jobs, closed, sent, spawned,
          wg, pcW, currentJob, lookups, writes, logs, fileCreated, ioFailed, file, row,
          backend, regionIdx, inMarker, requests, cwSnapshot, run, firstRun>>

\* The state of a harness that calls the enrichment twice.
rvars == <<cwSnapshot, run, firstRun>>

\* The state of getAllLambdaFunctionsDetails.
lvars == <<backend, regionIdx, inMarker, requests>>

\* The state of the enrichment and of the export.
evars == <<i, jobs, closed, sent, spawned, wg, pcW, currentJob, logs, fileCreated,
           ioFailed, file, row>>

N == Cardinality(DOMAIN lambdaFunctionsList)
Indices == DOMAIN lambdaFunctionsList

\* ------------------------------------------------------------ the records
\* cmd.go:54-62: one lambdaFunction per function descriptor, LastInvoked unset.
NewLambdaFunction(name, region) ==
    [Name |-> name, Region |-> region, Arn |-> <<"arn", region, name>>,
     Description |-> "desc", LastModified |-> "2024-01-01", IamRole |-> "role",
     Runtime |-> "go1.x", LastInvoked |-> Unset]

FunctionNames == <<"fn1", "fn2", "fn3", "fn4", "fn5">>

\* An inventory of n functions of which the first a live in region A and the
\* rest in region B; names are unique within a region only.
Inventory(n, a) ==
    [k \in 0..(n - 1) |->
        IF k < a THEN NewLambdaFunction(FunctionNames[k + 1], Regions[1])
                 ELSE NewLambdaFunction(FunctionNames[k - a + 1], Regions[2])]

\* ------------------------------------------------- the CloudWatch backend
\* What DescribeLogStreams (cmd.go:133) can answer for one job. The backend is
\* an external service: which answer comes is not decided by the program.
\*   LogGroupNotFound      a smithy.OperationError of DescribeLogStreams whose
\*                         text holds "The specified log group does not exist"
\*   OperationErrorOther   any other smithy.OperationError
\*   NonOperationError     an error that is no smithy.OperationError
\*   NoLogStreams          no error, len(out.LogStreams) == 0
\*   NilTimestamp          a stream whose LastEventTimestamp is nil
\*   Stream                a stream with a LastEventTimestamp
ErrorKinds == {"LogGroupNotFound", "OperationErrorOther", "NonOperationError"}
OutcomeKinds == ErrorKinds \cup {"NoLogStreams", "NilTimestamp", "Stream"}
NoError == "nil"
NilTs == -1

\* The LastEventTimestamp (milliseconds) the backend holds for the function at
\* an index; Limit is 1 (cmd.go:122), so at most one stream is returned.
BackendTimestamp(index) == (index + 1) * MillisPerSecond + 999

\* The pair (out, err) DescribeLogStreams returns for an outcome kind.
Response(kind, job) ==
    [err |-> IF kind \in ErrorKinds THEN kind ELSE NoError,
     LogStreams |-> CASE kind = "Stream" ->
                            << [LastEventTimestamp |-> BackendTimestamp(job.index)] >>
                      [] kind = "NilTimestamp" -> << [LastEventTimestamp |-> NilTs] >>
                      [] OTHER -> << >>]

\* cmd.go:135-136: errors.As(err, &oe) finds a smithy.OperationError.
IsOperationError(err) == err \in {"LogGroupNotFound", "OperationErrorOther"}

\* cmd.go:137: the operation is DescribeLogStreams and the text holds
\* cloudWatchLogGroupDoesNotExistErrorMessage.
IsLogGroupDoesNotExist(err) == err = "LogGroupNotFound"

\* time.Unix(s, 0).Format("2006-01-02T15:04:05-07:00"), in UTC.
FormatTime(s) ==
    CASE s = 0 -> "1970-01-01T00:00:00+00:00"
      [] s = 1 -> "1970-01-01T00:00:01+00:00"
      [] s = 2 -> "1970-01-01T00:00:02+00:00"
      [] s = 3 -> "1970-01-01T00:00:03+00:00"
      [] s = 4 -> "1970-01-01T00:00:04+00:00"
      [] s = 5 -> "1970-01-01T00:00:05+00:00"
      [] OTHER -> "1970-01-01T00:00:06+00:00"

\* The timestamp taken as it comes, in milliseconds.
lastEventTimestampRaw(out) == out.LogStreams[1].LastEventTimestamp

\* cmd.go:158: milliseconds to whole seconds.
lastEventTimestampInSeconds(out) == out.LogStreams[1].LastEventTimestamp \div MillisPerSecond

\* The handler as its doc comment (cmd.go:111-112) describes it: every error of
\* the describe call gives the sentinel.
LastInvokedAfter_SentinelOnAnyError(old, out) ==
    IF out.err # NoError THEN Sentinel
    ELSE IF Len(out.LogStreams) = 0 THEN Sentinel
    ELSE IF out.LogStreams[1].LastEventTimestamp # NilTs
         THEN FormatTime(lastEventTimestampInSeconds(out))
         ELSE old

\* cmd.go:134-169: the value of LastInvoked after the worker has handled the
\* response, given the value `old` it had before.
LastInvokedAfter(old, out) ==
    IF out.err # NoError
    THEN IF IsOperationError(out.err)
         THEN IF IsLogGroupDoesNotExist(out.err) THEN Sentinel ELSE old
         ELSE old
    ELSE IF Len(out.LogStreams) = 0 THEN Sentinel
    ELSE IF out.LogStreams[1].LastEventTimestamp # NilTs
         THEN FormatTime(lastEventTimestampInSeconds(out))
         ELSE old

\* cmd.go:142,155,161: whether the handler assigns LastInvoked at all.
AssignsLastInvoked(out) ==
    IF out.err # NoError
    THEN IsOperationError(out.err) /\ IsLogGroupDoesNotExist(out.err)
    ELSE Len(out.LogStreams) = 0 \/ out.LogStreams[1].LastEventTimestamp # NilTs

\* cmd.go:138,145,151,162: the log events the handler emits.
LogEvents(job, out) ==
    IF out.err # NoError
    THEN IF IsOperationError(out.err)
         THEN IF IsLogGroupDoesNotExist(out.err)
              THEN {<<"debug", "CloudWatch log group does not exist for lambda function", job.index>>}
              ELSE {}
         ELSE {<<"debug", "error when describing log stream", job.index>>}
    ELSE IF Len(out.LogStreams) = 0
         THEN {<<"debug", "no log stream exists for lambda function", job.index>>}
    ELSE IF out.LogStreams[1].LastEventTimestamp # NilTs
         THEN {<<"debug", "last invoke time info", job.index>>}
         ELSE {}

\* ------------------------------------------------------ the Lambda backend
\* in.Marker of a fresh ListFunctionsInput (cmd.go:40), and a NextMarker of nil.
NoMarker == [region |-> "", offset |-> -1]

\* The page of region r that starts after `offset` functions: the functions on
\* it and the marker of the page that follows, if one does.
Page(r, offset) ==
    LET b == backend[r]
        last == IF offset + b.pageSize < b.count THEN offset + b.pageSize ELSE b.count
    IN [err |-> FALSE,
        Functions |-> [k \in 1..(IF last > offset THEN last - offset ELSE 0) |->
                          FunctionNames[offset + k]],
        NextMarker |-> IF offset + b.pageSize < b.count
                       THEN [region |-> Regions[r], offset |-> offset + b.pageSize]
                       ELSE NoMarker]

ListingError == [err |-> TRUE, Functions |-> << >>, NextMarker |-> NoMarker]

\* What ListFunctions can answer in region r to a request carrying `marker`.
\* Any request can fail. A marker issued by another region is not one the
\* region ever handed out: the service may reject it, ignore it, or read it as
\* a position in its own listing.
ListFunctionsResponses(r, marker) ==
    {ListingError} \cup
    (IF marker = NoMarker THEN {Page(r, 0)}
     ELSE IF marker.region = Regions[r] THEN {Page(r, marker.offset)}
     ELSE {Page(r, 0), Page(r, marker.offset)})

\* ------------------------------------------------------------------- Init
\* The state at main.go:234: the inventory has been collected, nothing of the
\* enrichment has run. The inventory is that of the default region alone
\* (region A), or that of regions A and B with the functions spread over both.
Init ==
    /\ maxWorkers \in 1..MaxW
    /\ \E n \in 0..MaxN : \E allRegions \in BOOLEAN :
          lambdaFunctionsList = Inventory(n, IF allRegions THEN n \div 2 ELSE n)
    /\ pcMain = "enqueue"
    /\ i = 0
    /\ jobs = << >>
    /\ closed = FALSE
    /\ sent = << >>
    /\ spawned = 0
    /\ wg = 0
    /\ pcW = [w \in WorkerIds |-> "unstarted"]
    /\ currentJob = [w \in WorkerIds |-> NoJob]
    /\ lookups = [k \in DOMAIN lambdaFunctionsList |-> << >>]
    /\ writes = [k \in DOMAIN lambdaFunctionsList |-> 0]
    /\ logs = {}
    /\ fileCreated = FALSE
    /\ ioFailed = FALSE
    /\ file = << >>
    /\ row = 0
    /\ backend = << >>
    /\ regionIdx = 0
    /\ inMarker = NoMarker
    /\ requests = << >>
    /\ cwSnapshot = << >>
    /\ run = 1
    /\ firstRun = << >>

\* ------------------------------------ getAllLambdaFunctionsLastInvokeTime
\* A pool one larger than the configured limit.
WorkerLimitArg_OneMore == maxWorkers + 1

\* main.go:235: the limit handed to getAllLambdaFunctionsLastInvokeTime.
WorkerLimitArg == maxWorkers

\* cmd.go:89: make(chan job, maxWorkers).
QueueCapacity == WorkerLimitArg

\* As many workers as there are jobs when the jobs are fewer than the limit.
NumWorkersToStart_MinOfJobsAndLimit == IF N < maxWorkers THEN N ELSE maxWorkers

\* cmd.go:101: for range maxWorkers.
NumWorkersToStart == WorkerLimitArg

\* Every job carrying the index of the first record.
JobIndex_AlwaysFirst(k) == 0

\* Indices counted from one.
JobIndex_FromOne(k) == k + 1

\* cmd.go:95: the index a job carries for the k-th record.
JobIndex(k) == k

\* cmd.go:92-96
NewJob(k) ==
    [functionName |-> lambdaFunctionsList[k].Name,
     region |-> lambdaFunctionsList[k].Region,
     index |-> JobIndex(k)]

\* cmd.go:91-99: one iteration of the producer loop; the send blocks while the
\* channel is full.
Enqueue ==
    /\ pcMain = "enqueue"
    /\ i < N
    /\ Len(jobs) < QueueCapacity
    /\ jobs' = Append(jobs, NewJob(i))
    /\ sent' = Append(sent, NewJob(i))
    /\ i' = i + 1
    /\ UNCHANGED <<rvars, lvars, maxWorkers, lambdaFunctionsList, pcMain, closed, spawned, wg, pcW,
                   currentJob, lookups, writes, logs, fileCreated, ioFailed, file, row>>

\* cmd.go:91: the range loop ends.
EnqueueDone ==
    /\ pcMain = "enqueue"
    /\ i = N
    /\ pcMain' = "spawn"
    /\ UNCHANGED <<rvars, lvars, maxWorkers, lambdaFunctionsList, i, jobs, closed, sent, spawned, wg,
                   pcW, currentJob, lookups, writes, logs, fileCreated, ioFailed, file, row>>

\* cmd.go:101-104: wg.Add(1); go app.getLambdaFunctionLastInvokeTime(...)
SpawnWorker ==
    /\ pcMain = "spawn"
    /\ spawned < NumWorkersToStart
    /\ wg' = wg + 1
    /\ spawned' = spawned + 1
    /\ pcW' = [pcW EXCEPT ![spawned + 1] = "recv"]
    /\ UNCHANGED <<rvars, lvars, maxWorkers, lambdaFunctionsList, pcMain, i, jobs, closed, sent,
                   currentJob, lookups, writes, logs, fileCreated, ioFailed, file, row>>

\* A close that does not wait for the end of the loop that starts the workers.
StartLoopOver_AtAnyTime == TRUE

\* cmd.go:101-104: the loop that starts the workers has run all its iterations.
StartLoopOver == spawned = NumWorkersToStart

\* cmd.go:106: close(jobs), and the return to main.go:236.
CloseJobs ==
    /\ pcMain = "spawn"
    /\ StartLoopOver
    /\ closed' = TRUE
    /\ pcMain' = "wait"
    /\ UNCHANGED <<rvars, lvars, maxWorkers, lambdaFunctionsList, i, jobs, sent, spawned, wg, pcW,
                   currentJob, lookups, writes, logs, fileCreated, ioFailed, file, row>>

\* ---------------------------------------- getLambdaFunctionLastInvokeTime
\* A receive that leaves the job on the channel.
RemainingJobs_Peek(q) == q

\* cmd.go:116: a receive takes the first job off the channel.
RemainingJobs(q) == Tail(q)

\* cmd.go:116: `for currentJob := range jobs` receives a job.
WorkerReceive(w) ==
    /\ pcW[w] = "recv"
    /\ Len(jobs) > 0
    /\ currentJob' = [currentJob EXCEPT ![w] = Head(jobs)]
    /\ jobs' = RemainingJobs(jobs)
    /\ pcW' = [pcW EXCEPT ![w] = "lookup"]
    /\ UNCHANGED <<rvars, lvars, maxWorkers, lambdaFunctionsList, pcMain, i, closed, sent, spawned, wg,
                   lookups, writes, logs, fileCreated, ioFailed, file, row>>

\* A worker that returns (and so runs its deferred wg.Done) on an error.
AfterJob_ReturnOnError(out) == IF out.err # NoError THEN "exited" ELSE "recv"

\* cmd.go:116,170: after handling a response the worker is back at the head of
\* its range loop, whatever the response was.
AfterJob(out) == "recv"

\* One client of the configured default region for every job.
LookupRegion_Default(job) == Regions[1]

\* cmd.go:129-131: the region of the CloudWatch Logs client made for the job.
LookupRegion(job) == job.region

\* cmd.go:117: the log group the job's lookup names.
LogGroupName(job) == <<lambdaLogGroupPrefix, job.functionName>>

\* An assignment that hits the neighbouring field.
WriteBack_LastModified(list, idx, value) == [list EXCEPT ![idx].LastModified = value]

\* cmd.go:142,155,161: lambdaFunctionsList[currentJob.index].LastInvoked = value.
WriteBack(list, idx, value) == [list EXCEPT ![idx].LastInvoked = value]

\* cmd.go:133: the answers DescribeLogStreams can give for a job: any, or the
\* one answer of the fixed backend state for the job's function and region.
AnswerKinds(job) ==
    LET key == <<job.functionName, LookupRegion(job)>>
    IN IF key \in DOMAIN cwSnapshot THEN {cwSnapshot[key]} ELSE OutcomeKinds

\* cmd.go:117-169: DescribeLogStreams answers and the worker handles the answer.
\* The deferred wg.Done (cmd.go:114) runs whenever the function returns.
WorkerLookup(w) ==
    /\ pcW[w] = "lookup"
    /\ \E kind \in AnswerKinds(currentJob[w]) :
         LET job == currentJob[w]
             out == Response(kind, job)
             idx == job.index
         IN /\ lookups' = [lookups EXCEPT ![idx] =
                              Append(@, [logGroupName |-> LogGroupName(job),
                                         region |-> LookupRegion(job),
                                         kind |-> kind])]
            /\ lambdaFunctionsList' =
                  WriteBack(lambdaFunctionsList, idx,
                            LastInvokedAfter(lambdaFunctionsList[idx].LastInvoked, out))
            /\ writes' = [writes EXCEPT ![idx] = IF AssignsLastInvoked(out) THEN @ + 1 ELSE @]
            /\ logs' = logs \cup LogEvents(job, out)
            /\ pcW' = [pcW EXCEPT ![w] = AfterJob(out)]
            /\ wg' = IF AfterJob(out) = "exited" THEN wg - 1 ELSE wg
    /\ currentJob' = [currentJob EXCEPT ![w] = NoJob]
    /\ UNCHANGED <<rvars, lvars, maxWorkers, pcMain, i, jobs, closed, sent, spawned,
                   fileCreated, ioFailed, file, row>>

\* cmd.go:114,116: the channel is closed and empty: the loop ends, wg.Done().
WorkerExit(w) ==
    /\ pcW[w] = "recv"
    /\ Len(jobs) = 0
    /\ closed
    /\ pcW' = [pcW EXCEPT ![w] = "exited"]
    /\ wg' = wg - 1
    /\ UNCHANGED <<rvars, lvars, maxWorkers, lambdaFunctionsList, pcMain, i, jobs, closed, sent, spawned,
                   currentJob, lookups, writes, logs, fileCreated, ioFailed, file, row>>

\* ------------------------------------------------------------------- main
\* A barrier that does not wait.
WaitReturns_AtOnce == TRUE

\* main.go:236: wg.Wait() returns when the counter is zero.
WaitReturns == wg = 0

WaitGroupWait ==
    /\ pcMain = "wait"
    /\ WaitReturns
    /\ pcMain' = "create"
    /\ UNCHANGED <<rvars, lvars, maxWorkers, lambdaFunctionsList, i, jobs, closed, sent, spawned, wg, pcW,
                   currentJob, lookups, writes, logs, fileCreated, ioFailed, file, row>>

\* main.go:241-246: os.Create; a failure is logged and the run goes on.
CreateFile ==
    /\ pcMain = "create"
    /\ \E ok \in BOOLEAN :
         /\ fileCreated' = ok
         /\ logs' = IF ok THEN logs ELSE logs \cup {<<"error", "error when creating a file", -1>>}
    /\ pcMain' = "title"
    /\ UNCHANGED <<rvars, lvars, maxWorkers, lambdaFunctionsList, i, jobs, closed, sent, spawned, wg, pcW,
                   currentJob, lookups, writes, ioFailed, file, row>>

\* lambda.go:8-14,19-29: the title tags of the struct fields, in field order.
getTitleFields ==
    <<"Function Name", "Function ARN", "Function Description", "Last Modified",
      "IAM Role", "Runtime", "Last Invoked">>

\* lambda.go:8-14: the fields of the struct, in declaration order.
StructFieldNames ==
    <<"Name", "Arn", "Description", "LastModified", "IamRole", "Runtime", "LastInvoked">>

\* main.go:262-269: the fields a data row is built from, in order.
RowFieldNames ==
    <<"Name", "Region", "Arn", "Description", "LastModified", "IamRole", "Runtime",
      "LastInvoked">>

\* main.go:261-270: the fields of one data row.
RecordFields(l) ==
    <<l.Name, l.Region, l.Arn, l.Description, l.LastModified, l.IamRole, l.Runtime,
      l.LastInvoked>>

\* csv.Writer.Write on the file: the writer's error state is sticky, and a row
\* reaches the output only if the file exists and no write has failed.
CsvWrite(fields, fails, msg, k) ==
    /\ ioFailed' = (ioFailed \/ fails)
    /\ file' = IF fileCreated /\ ~ioFailed' THEN Append(file, fields) ELSE file
    /\ logs' = IF ioFailed' THEN logs \cup {<<"error", msg, k>>} ELSE logs

\* main.go:252: lambdaFunctionsList[0] panics (index out of range) on an empty
\* slice; the deferred Flush and Close run and the process exits with status 2.
TitlePanics ==
    /\ pcMain = "title"
    /\ N = 0
    /\ pcMain' = "panic"
    /\ UNCHANGED <<rvars, lvars, maxWorkers, lambdaFunctionsList, i, jobs, closed, sent, spawned, wg, pcW,
                   currentJob, lookups, writes, logs, fileCreated, ioFailed, file, row>>

\* main.go:252-258: the header row; a failure is logged and the run goes on.
WriteTitle ==
    /\ pcMain = "title"
    /\ N > 0
    /\ \E fails \in BOOLEAN : CsvWrite(getTitleFields, fails, "error when writing title", -1)
    /\ pcMain' = "rows"
    /\ row' = 0
    /\ UNCHANGED <<rvars, lvars, maxWorkers, lambdaFunctionsList, i, jobs, closed, sent, spawned, wg, pcW,
                   currentJob, lookups, writes, fileCreated>>

\* main.go:260-279: one data row; a failure is logged and the loop goes on.
WriteRow ==
    /\ pcMain = "rows"
    /\ row < N
    /\ \E fails \in BOOLEAN :
         CsvWrite(RecordFields(lambdaFunctionsList[row]), fails, "error when writing the entry", row)
    /\ row' = row + 1
    /\ UNCHANGED <<rvars, lvars, maxWorkers, lambdaFunctionsList, pcMain, i, jobs, closed, sent, spawned, wg,
                   pcW, currentJob, lookups, writes, fileCreated>>

\* main.go:281-285: the closing log line and the return of main (exit status 0).
Finish ==
    /\ pcMain = "rows"
    /\ row = N
    /\ logs' = logs \cup {<<"info", "all the function details have been written to the output", N>>}
    /\ pcMain' = "done"
    /\ UNCHANGED <<rvars, lvars, maxWorkers, lambdaFunctionsList, i, jobs, closed, sent, spawned, wg, pcW,
                   currentJob, lookups, writes, fileCreated, ioFailed, file, row>>

MainStep ==
    \/ Enqueue
    \/ EnqueueDone
    \/ SpawnWorker
    \/ CloseJobs
    \/ WaitGroupWait
    \/ CreateFile
    \/ TitlePanics
    \/ WriteTitle
    \/ WriteRow
    \/ Finish

WorkerStep(w) ==
    \/ WorkerReceive(w)
    \/ WorkerLookup(w)
    \/ WorkerExit(w)

Next ==
    \/ MainStep
    \/ \E w \in WorkerIds : WorkerStep(w)

Spec == Init /\ [][Next]_vars

\* The Go scheduler does not leave the process idle while a goroutine can run.
FairSpec == Spec /\ WF_vars(Next)

\* ------------------------------------------- getAllLambdaFunctionsDetails
\* What one region can hold: a number of functions and the backend's page size.
RegionContents ==
    {[count |-> c, pageSize |-> p] :
        c \in 0..MaxPerRegion, p \in 1..(IF MaxPerRegion = 0 THEN 1 ELSE MaxPerRegion)}

\* The state at main.go:227: the clients of the chosen regions exist (the default
\* region alone, or all regions), nothing has been listed.
ListInit ==
    /\ maxWorkers \in 1..MaxW
    /\ \E n \in 1..Len(Regions) :
          /\ backend \in [1..n -> RegionContents]
          /\ \A r \in 1..n : backend[r].pageSize <= (IF backend[r].count = 0 THEN 1 ELSE backend[r].count)
    /\ lambdaFunctionsList = << >>
    /\ pcMain = "list"
    /\ regionIdx = 1
    /\ inMarker = NoMarker
    /\ requests = << >>
    /\ i = 0
    /\ jobs = << >>
    /\ closed = FALSE
    /\ sent = << >>
    /\ spawned = 0
    /\ wg = 0
    /\ pcW = [w \in WorkerIds |-> "unstarted"]
    /\ currentJob = [w \in WorkerIds |-> NoJob]
    /\ lookups = << >>
    /\ writes = << >>
    /\ logs = {}
    /\ fileCreated = FALSE
    /\ ioFailed = FALSE
    /\ file = << >>
    /\ row = 0
    /\ cwSnapshot = << >>
    /\ run = 1
    /\ firstRun = << >>

\* cmd.go:53-65: the records of one page appended to the slice.
AppendPage(list, names, region) ==
    LET n == Cardinality(DOMAIN list)
    IN [k \in 0..(n + Len(names) - 1) |->
          IF k < n THEN list[k] ELSE NewLambdaFunction(names[k - n + 1], region)]

\* A main that logs the listing error and goes on.
AfterListError_GoOn == "enqueue"

\* main.go:228-232: logger.Fatalw ends the process.
AfterListError == "fatal"

\* cmd.go:47-72: one ListFunctions call of the region at hand with the shared
\* input, and what the loop does with the answer. On an error nil is returned
\* (cmd.go:50); in.Marker is assigned only when a NextMarker came (cmd.go:67-68).
ListFunctions ==
    /\ pcMain = "list"
    /\ regionIdx <= Len(backend)
    /\ \E out \in ListFunctionsResponses(regionIdx, inMarker) :
         /\ requests' = Append(requests, [region |-> Regions[regionIdx],
                                          marker |-> inMarker,
                                          err |-> out.err])
         /\ IF out.err
            THEN /\ lambdaFunctionsList' = << >>
                 /\ pcMain' = AfterListError
                 /\ UNCHANGED <<regionIdx, inMarker>>
            ELSE /\ lambdaFunctionsList' =
                       AppendPage(lambdaFunctionsList, out.Functions, Regions[regionIdx])
                 /\ pcMain' = pcMain
                 /\ IF out.NextMarker # NoMarker
                    THEN inMarker' = out.NextMarker /\ regionIdx' = regionIdx
                    ELSE inMarker' = inMarker /\ regionIdx' = regionIdx + 1
    /\ lookups' = [k \in DOMAIN lambdaFunctionsList' |-> << >>]
    /\ writes' = [k \in DOMAIN lambdaFunctionsList' |-> 0]
    /\ UNCHANGED <<rvars, evars, maxWorkers, backend>>

\* cmd.go:76-80, main.go:227-235: every client has been listed; the slice is
\* returned and the enrichment begins.
ListDone ==
    /\ pcMain = "list"
    /\ regionIdx > Len(backend)
    /\ pcMain' = "enqueue"
    /\ UNCHANGED <<rvars, lvars, evars, maxWorkers, lambdaFunctionsList, lookups, writes>>

ListNext ==
    \/ ListFunctions
    \/ ListDone
    \/ Next

\* The whole of main from the listing on.
ListSpec == ListInit /\ [][ListNext]_vars

\* --------------------------------------------- the enrichment, run twice
\* The (name, region) pairs the lookups of a slice are made for.
SnapshotKeys(list) == {<<list[k].Name, list[k].Region>> : k \in DOMAIN list}

\* The state at main.go:234 of a harness that makes the call and the barrier of
\* main.go:235-236 twice over the same slice, against a CloudWatch Logs backend
\* whose state does not change: one answer per (function, region).
TwiceInit ==
    /\ maxWorkers \in 1..MaxW
    /\ \E n \in 0..MaxTwiceN : \E allRegions \in BOOLEAN :
          lambdaFunctionsList = Inventory(n, IF allRegions THEN n \div 2 ELSE n)
    /\ cwSnapshot \in [SnapshotKeys(lambdaFunctionsList) -> OutcomeKinds]
    /\ run = 1
    /\ firstRun = << >>
    /\ pcMain = "enqueue"
    /\ i = 0
    /\ jobs = << >>
    /\ closed = FALSE
    /\ sent = << >>
    /\ spawned = 0
    /\ wg = 0
    /\ pcW = [w \in WorkerIds |-> "unstarted"]
    /\ currentJob = [w \in WorkerIds |-> NoJob]
    /\ lookups = [k \in DOMAIN lambdaFunctionsList |-> << >>]
    /\ writes = [k \in DOMAIN lambdaFunctionsList |-> 0]
    /\ logs = {}
    /\ fileCreated = FALSE
    /\ ioFailed = FALSE
    /\ file = << >>
    /\ row = 0
    /\ backend = << >>
    /\ regionIdx = 0
    /\ inMarker = NoMarker
    /\ requests = << >>

\* main.go:236, then main.go:235 again: the first barrier is released and the
\* second call starts, with a channel and goroutines of its own (cmd.go:89,103)
\* over the slice the first call has written to.
RunAgain ==
    /\ pcMain = "wait"
    /\ WaitReturns
    /\ run = 1
    /\ firstRun' = lambdaFunctionsList
    /\ run' = 2
    /\ pcMain' = "enqueue"
    /\ i' = 0
    /\ jobs' = << >>
    /\ closed' = FALSE
    /\ sent' = << >>
    /\ spawned' = 0
    /\ pcW' = [w \in WorkerIds |-> "unstarted"]
    /\ UNCHANGED <<lvars, cwSnapshot, maxWorkers, lambdaFunctionsList, wg, currentJob, lookups,
                   writes, logs, fileCreated, ioFailed, file, row>>

\* main.go:236: the barrier of the second call is released.
RunsOver ==
    /\ pcMain = "wait"
    /\ WaitReturns
    /\ run = 2
    /\ pcMain' = "twice"
    /\ UNCHANGED <<rvars, lvars, maxWorkers, lambdaFunctionsList, i, jobs, closed, sent, spawned,
                   wg, pcW, currentJob, lookups, writes, logs, fileCreated, ioFailed, file, row>>

TwiceNext ==
    \/ Enqueue
    \/ EnqueueDone
    \/ SpawnWorker
    \/ CloseJobs
    \/ \E w \in WorkerIds : WorkerStep(w)
    \/ RunAgain
    \/ RunsOver

TwiceSpec == TwiceInit /\ [][TwiceNext]_vars

\* ================================================================ claims
AfterBarrier == pcMain \in {"create", "title", "rows", "done", "panic"}
ActiveLookups == {w \in WorkerIds : pcW[w] = "lookup"}
Looked(k) == Len(lookups[k]) > 0
LastKind(k) == lookups[k][Len(lookups[k])].kind
OtherErrorKinds == {"OperationErrorOther", "NonOperationError"}

\* C1: for every W >= 1 and N >= 0 the enrichment completes; no reachable
\* state has the producer blocked on a full job queue with no worker started
\* to drain it (workers are started only after the producer loop, so such a
\* state is blocked forever).
ProducerBlockedForever ==
    /\ pcMain = "enqueue"
    /\ i < N
    /\ Len(jobs) >= QueueCapacity
    /\ \A w \in WorkerIds : pcW[w] = "unstarted"
C1_EnrichmentCompletes == ~ProducerBlockedForever

\* C2: in every reachable state the number of workers that hold a job whose
\* lookup has not finished is at most the configured limit stg.maxWorkers.
C2_ActiveLookupsBounded == Cardinality(ActiveLookups) <= maxWorkers
C2_Witness == maxWorkers >= 2 /\ Cardinality(ActiveLookups) = maxWorkers

\* C3: every position is written at most once: a record has been written
\* exactly once or still holds its initial unset value, and no two workers
\* are ever at work on the same position.
C3_WrittenAtMostOnce ==
    /\ \A k \in Indices :
         \/ writes[k] = 1
         \/ writes[k] = 0 /\ lambdaFunctionsList[k].LastInvoked = Unset
    /\ \A w1, w2 \in ActiveLookups :
         w1 # w2 => currentJob[w1].index # currentJob[w2].index
C3_Witness ==
    /\ AfterBarrier
    /\ \E k1, k2 \in Indices : writes[k1] = 1 /\ writes[k2] = 0 /\ Looked(k2)
    /\ Cardinality({w \in WorkerIds : pcW[w] = "exited"}) >= 2

\* C4: the jobs built so far are, in order, the jobs of positions 0, 1, ...:
\* the k-th job carries index k and the name and region of record k, so no
\* index is shared or skipped; and once the producer loop is over the indices
\* are exactly the range [0, N).
C4_JobsAreTheIndexRange ==
    /\ Len(sent) = i
    /\ \A k \in 1..Len(sent) :
         sent[k] = [functionName |-> lambdaFunctionsList[k - 1].Name,
                    region |-> lambdaFunctionsList[k - 1].Region,
                    index |-> k - 1]
    /\ pcMain # "enqueue" => {sent[k].index : k \in 1..Len(sent)} = 0..(N - 1)
    /\ pcMain # "enqueue" => Len(sent) = N
C4_Witness ==
    /\ pcMain = "spawn"
    /\ N = 3
    /\ \E k1, k2 \in 1..Len(sent) : sent[k1].region # sent[k2].region

\* C5: whenever main is past wg.Wait() (creating the file, writing the title
\* or the rows, or finished) every worker that was started has exited, so no
\* write to LastInvoked can follow a read of the export stage.
C5_ExportAfterWorkers ==
    AfterBarrier =>
        /\ \A w \in WorkerIds : pcW[w] \in {"unstarted", "exited"}
        /\ wg = 0
        /\ Cardinality({w \in WorkerIds : pcW[w] = "exited"}) = spawned
C5_Witness ==
    /\ pcMain = "rows"
    /\ row >= 2
    /\ spawned >= 2
    /\ \A k \in Indices : writes[k] = 1

\* C6: a lookup that fails does not abort the batch: the worker that handled
\* it is back at the head of its loop, after the barrier every record has had
\* its one lookup and every lookup that succeeded has left its result, and a
\* run in which a lookup failed goes on to the end of main.
C6_EveryJobHandled ==
    AfterBarrier =>
        \A j \in Indices :
            /\ Len(lookups[j]) = 1
            /\ LastKind(j) \in {"NoLogStreams", "Stream"} =>
                  /\ writes[j] = 1
                  /\ lambdaFunctionsList[j].LastInvoked # Unset
C6_WorkerGoesOn ==
    \A w \in WorkerIds : (pcW[w] = "lookup" /\ pcW'[w] # "lookup") => pcW'[w] = "recv"
C6_FailureDoesNotAbort ==
    /\ []C6_EveryJobHandled
    /\ [][C6_WorkerGoesOn]_vars
    /\ (\E k \in Indices : Looked(k) /\ LastKind(k) \in ErrorKinds) ~> (pcMain = "done")
C6_Witness ==
    /\ pcMain = "done"
    /\ N = 3
    /\ \E k \in Indices :
         /\ LastKind(k) = "OperationErrorOther"
         /\ lambdaFunctionsList[k].LastInvoked = Unset
         /\ \A j \in Indices \ {k} :
              LastKind(j) = "Stream" /\ lambdaFunctionsList[j].LastInvoked # Unset
    /\ Len(file) = N + 1

\* C7: the value a worker leaves is decided by the outcome of that job alone:
\* "log group does not exist" and "no stream" give the sentinel "-", a stream
\* with a timestamp gives that timestamp, in whole seconds, formatted; with
\* three records of which only the second has no history the first and third
\* hold their timestamps and the second the sentinel.
C7_ValueByOutcome ==
    /\ \A k \in Indices :
         Looked(k) =>
            /\ LastKind(k) = "LogGroupNotFound" => lambdaFunctionsList[k].LastInvoked = "-"
            /\ LastKind(k) = "NoLogStreams" => lambdaFunctionsList[k].LastInvoked = "-"
            /\ LastKind(k) = "Stream" =>
                  lambdaFunctionsList[k].LastInvoked = FormatTime(k + 1)
    /\ (/\ AfterBarrier
        /\ N = 3
        /\ LastKind(0) = "Stream" /\ LastKind(1) = "LogGroupNotFound" /\ LastKind(2) = "Stream")
       => /\ lambdaFunctionsList[0].LastInvoked = "1970-01-01T00:00:01+00:00"
          /\ lambdaFunctionsList[1].LastInvoked = "-"
          /\ lambdaFunctionsList[2].LastInvoked = "1970-01-01T00:00:03+00:00"
C7_Witness ==
    /\ pcMain = "done"
    /\ N = 3
    /\ LastKind(0) = "Stream" /\ LastKind(1) = "LogGroupNotFound" /\ LastKind(2) = "Stream"
    /\ file = <<getTitleFields,
                RecordFields(lambdaFunctionsList[0]),
                RecordFields(lambdaFunctionsList[1]),
                RecordFields(lambdaFunctionsList[2])>>
    /\ file[3][8] = "-"

\* C8: if the describe call returns an error, whatever the error, the
\* LastInvoked of the job's record is "-" once the job has been handled.
C8_AnyErrorGivesSentinel ==
    \A k \in Indices :
        (Looked(k) /\ LastKind(k) \in ErrorKinds) =>
            lambdaFunctionsList[k].LastInvoked = Sentinel

C10_EmptyInventoryHeaderOnly ==
    N = 0 =>
        /\ \A w \in WorkerIds : pcW[w] # "lookup"
        /\ pcMain # "panic"
        /\ (pcMain = "done" /\ fileCreated /\ ~ioFailed) => file = <<getTitleFields>>

\* C11: the exported table is column-aligned: the header row has as many
\* titles as every data row has fields, and the k-th title is the title of
\* the field the k-th column of a data row is built from, in the order Name,
\* Region, ARN, Description, LastModified, IamRole, Runtime, LastInvoked.
C11_ColumnsAligned ==
    Len(file) >= 2 =>
        /\ file[1] = getTitleFields
        /\ \A r \in 2..Len(file) : Len(file[r]) = Len(file[1])
        /\ Len(StructFieldNames) = Len(RowFieldNames)
        /\ \A k \in 1..Len(RowFieldNames) : StructFieldNames[k] = RowFieldNames[k]

\* C14: a failure to create the output or to write the header or a row is
\* fatal: no further write is attempted after it and the run does not end in
\* the "all the function details have been written" state.
ExportFailed ==
    \/ pcMain \in {"title", "rows", "done"} /\ ~fileCreated
    \/ ioFailed
C14_ExportFailureIsFatal ==
    ExportFailed =>
        /\ pcMain # "done"
        /\ <<"info", "all the function details have been written to the output", N>> \notin logs

\* C15 (as stated): the number of workers started is min(N, W).
Min(a, b) == IF a < b THEN a ELSE b
SpawnLoopOver == pcMain \notin {"list", "fatal", "enqueue", "spawn"}
C15_StartsMinOfNAndW == SpawnLoopOver => spawned = Min(N, maxWorkers)

\* C15 (amended): the number of workers started is the limit W whatever N is,
\* also for N < W and N = 0: none before the producer loop is over, at most W
\* during the start loop, exactly W from then on.
C15_StartsExactlyW ==
    /\ Cardinality({w \in WorkerIds : pcW[w] # "unstarted"}) = spawned
    /\ spawned <= maxWorkers
    /\ pcMain = "enqueue" => spawned = 0
    /\ SpawnLoopOver => spawned = maxWorkers
C15_Witness ==
    /\ SpawnLoopOver
    /\ N < maxWorkers
    /\ spawned = maxWorkers
    /\ spawned > N

\* C16: every job sent is received exactly once and by one worker: at any
\* time it is on the channel, or held by one worker, or handled once, and
\* never two of these; after the barrier none is left on the channel.
TimesOnChannel(k) == Cardinality({q \in 1..Len(jobs) : jobs[q].index = k})
TimesHeld(k) == Cardinality({w \in WorkerIds : currentJob[w].index = k})
C16_EachJobReceivedOnce ==
    /\ \A k \in Indices :
         TimesOnChannel(k) + TimesHeld(k) + Len(lookups[k]) = (IF k < i THEN 1 ELSE 0)
    /\ AfterBarrier => (jobs = << >> /\ \A k \in Indices : Len(lookups[k]) = 1)
C16_Witness ==
    /\ AfterBarrier
    /\ N >= 2
    /\ \A k \in Indices : Len(lookups[k]) = 1
    /\ \E k \in Indices : LastKind(k) \in ErrorKinds

\* C17: after the barrier LastInvoked is a formatted timestamp, the sentinel
\* or empty, and it is empty only if the record's lookup returned an error.
C17_EmptyOnlyOnError ==
    AfterBarrier =>
        \A k \in Indices :
            /\ lambdaFunctionsList[k].LastInvoked \in
                  {Unset, Sentinel} \cup {FormatTime(t) : t \in 0..(N + 1)}
            /\ lambdaFunctionsList[k].LastInvoked = Unset => LastKind(k) \in ErrorKinds

\* C18: every lookup failure other than "log group does not exist" is logged:
\* once the job has been handled a log event for it has been emitted.
C18_OtherFailuresLogged ==
    \A k \in Indices :
        (Looked(k) /\ LastKind(k) \in OtherErrorKinds) =>
            \E e \in logs : e[3] = k /\ e[2] = "error when describing log stream"

\* C19: every lookup is made in the job's own region, which is the Region of
\* the record at the job's index, and names that record's log group.
C19_LookupInOwnRegion ==
    /\ \A k \in Indices : \A q \in 1..Len(lookups[k]) :
         /\ lookups[k][q].region = lambdaFunctionsList[k].Region
         /\ lookups[k][q].logGroupName = <<"/aws/lambda/", lambdaFunctionsList[k].Name>>
    /\ \A w \in ActiveLookups :
         currentJob[w].region = lambdaFunctionsList[currentJob[w].index].Region
C19_Witness ==
    /\ AfterBarrier
    /\ \E k1, k2 \in Indices :
         /\ Looked(k1) /\ Looked(k2)
         /\ lookups[k1][1].region = "A"
         /\ lookups[k2][1].region = "B"
         /\ lambdaFunctionsList[k1].Name = lambdaFunctionsList[k2].Name

\* C20: a step of the enrichment changes nothing of the record sequence but
\* LastInvoked: the length and the order stay, and Name, Region, Arn,
\* Description, LastModified, IamRole and Runtime of every record stay.
Descriptive(l) ==
    <<l.Name, l.Region, l.Arn, l.Description, l.LastModified, l.IamRole, l.Runtime>>
C20_Frame ==
    /\ DOMAIN lambdaFunctionsList' = DOMAIN lambdaFunctionsList
    /\ \A k \in DOMAIN lambdaFunctionsList :
         Descriptive(lambdaFunctionsList'[k]) = Descriptive(lambdaFunctionsList[k])
C20_OnlyLastInvokedChanges == [][pcMain \notin {"list", "fatal"} => C20_Frame]_vars
C20_Witness ==
    /\ AfterBarrier
    /\ N >= 2
    /\ \A k \in Indices : lambdaFunctionsList[k].LastInvoked # Unset
    /\ \E k \in Indices : lambdaFunctionsList[k].LastInvoked = Sentinel

\* C12: getAllLambdaFunctionsDetails starts each region's listing from that
\* region's first page (a request without marker), follows only that region's
\* own cursor, and returns every function of every region exactly once, tagged
\* with its region, also for a region that comes after one needing several
\* pages.
RECURSIVE ExpectedInventory(_)
ExpectedInventory(r) ==
    IF r = 0 THEN << >>
    ELSE ExpectedInventory(r - 1) \o
         [k \in 1..backend[r].count |-> <<FunctionNames[k], Regions[r]>>]
C12_EveryRegionListedInFull ==
    /\ \A q \in 1..Len(requests) :
         /\ (q = 1 \/ requests[q - 1].region # requests[q].region) =>
               requests[q].marker = NoMarker
         /\ requests[q].marker # NoMarker => requests[q].marker.region = requests[q].region
    /\ pcMain \notin {"list", "fatal"} =>
         /\ N = Len(ExpectedInventory(Len(backend)))
         /\ \A k \in Indices :
              <<lambdaFunctionsList[k].Name, lambdaFunctionsList[k].Region>> =
                 ExpectedInventory(Len(backend))[k + 1]

\* C13: if a page request fails, the listing returns no record and the run
\* ends there: no job is built, no worker is started, no lookup is made and
\* the output file is neither created nor written.
ListingFailed == \E q \in 1..Len(requests) : requests[q].err
C13_ListingFailureIsFatal ==
    ListingFailed =>
        /\ pcMain = "fatal"
        /\ requests[Len(requests)].err
        /\ lambdaFunctionsList = << >>
        /\ sent = << >>
        /\ spawned = 0
        /\ \A w \in WorkerIds : pcW[w] = "unstarted"
        /\ ~fileCreated
        /\ file = << >>
C13_Witness ==
    /\ pcMain = "fatal"
    /\ Len(requests) = 3
    /\ requests[1].region = "A" /\ requests[3].region = "B"
    /\ requests[2].marker # NoMarker
    /\ requests[3].err
    /\ lambdaFunctionsList = << >>


\* C22: the channel is closed at most once and stays closed; the step that
\* closes it is taken when all N jobs have been sent and every one of the
\* maxWorkers workers has been added to the WaitGroup (none of them has left it
\* yet); once the channel is closed nothing is sent on it; and a worker leaves
\* its loop only in a state where the channel is closed and empty.
C22_CloseStep == pcMain = "spawn" /\ pcMain' = "wait"

C22_Ordering ==
    /\ closed => closed'
    /\ closed => ~C22_CloseStep
    /\ (~closed /\ closed') =>
          /\ C22_CloseStep
          /\ i = N
          /\ Len(sent) = N
          /\ spawned = maxWorkers
          /\ wg = maxWorkers
    /\ closed => (sent' = sent /\ Len(jobs') <= Len(jobs))
    /\ \A w \in WorkerIds :
          (pcW[w] # "exited" /\ pcW'[w] = "exited") => (closed /\ Len(jobs) = 0)

C22_CloseOnceAfterSendsAndAdds ==
    [][pcMain \notin {"list", "fatal"} => C22_Ordering]_vars

\* The channel has been closed with two jobs sent, a worker is gone and
\* another one still holds a job.
C22_Witness ==
    /\ closed
    /\ N >= 2
    /\ Len(sent) = N
    /\ \E w \in WorkerIds : pcW[w] = "exited"
    /\ \E w \in WorkerIds : pcW[w] = "lookup"


\* C21: two calls of the enrichment, each followed by its barrier, over the
\* same slice and against a backend that gives the same answer for a function
\* and region in both: after the second barrier every record's LastInvoked is
\* the one it had after the first barrier, however the workers of the two
\* calls were scheduled.
C21_SecondRunSameValues ==
    pcMain = "twice" =>
        /\ DOMAIN firstRun = Indices
        /\ \A k \in Indices :
              lambdaFunctionsList[k].LastInvoked = firstRun[k].LastInvoked

\* Both calls are over, with more than one worker each, every record has
\* been looked up in each of them with the same answer, and the slice holds a
\* value a lookup has written and a field no lookup has written.
C21_Witness ==
    /\ pcMain = "twice"
    /\ N >= 2
    /\ maxWorkers >= 2
    /\ \A k \in Indices :
          Len(lookups[k]) = 2 /\ lookups[k][1].kind = lookups[k][2].kind
    /\ \E k \in Indices : lambdaFunctionsList[k].LastInvoked \notin {Unset, Sentinel}
    /\ \E k \in Indices : lambdaFunctionsList[k].LastInvoked = Unset

====
